---- MODULE Spec2Model ----
(***************************************************************************)
(* State-machine model of the two-stage pipeline of the repository:        *)
(*   - the Stream Ingester   (src/collector/collector/main.py)             *)
(*   - the Content Processor (src/analyzer/analyzer/main.py)               *)
(* A Python str is a sequence of one-character strings, so that strip(),   *)
(* lower(), substring search and tokenisation are computed, not assumed.   *)
(* Time is counted in minutes.                                             *)
(***************************************************************************)
EXTENDS Integers, Sequences, FiniteSets, TLC

(***************************************************************************)
(* Bounds of the model.                                                    *)
(***************************************************************************)
MaxMessages == 3      \* bodies ever put on the queue the Processor consumes
MaxQueue == 2         \* bodies waiting on that queue at a time
MaxTicks == 2         \* advances of the wall clock
MaxFrames == 4        \* events the stream ever emits
MaxConnLoss == 2      \* losses of the broker connection under the Ingester
MaxRestarts == 1      \* restarts of the Ingester after a lost stream
MaxWords == 2         \* words of a text given to the Text Normalizer
MaxPasses == 2        \* successive applications of the Text Normalizer

(***************************************************************************)
(* Strings.                                                                *)
(***************************************************************************)
UpperLetters ==
    <<"A","B","C","D","E","F","G","H","I","J","K","L","M",
      "N","O","P","Q","R","S","T","U","V","W","X","Y","Z">>

LowerLetters ==
    <<"a","b","c","d","e","f","g","h","i","j","k","l","m",
      "n","o","p","q","r","s","t","u","v","w","x","y","z">>

Range(s) == { s[k] : k \in 1..Len(s) }

\* str.lower() on one character
LowerChar(c) ==
    IF \E k \in 1..Len(UpperLetters) : UpperLetters[k] = c
    THEN LowerLetters[CHOOSE k \in 1..Len(UpperLetters) : UpperLetters[k] = c]
    ELSE c

\* str.lower()
Lower(s) == [k \in 1..Len(s) |-> LowerChar(s[k])]

IsSpace(c) == c = " "

IsLetter(c) == c \in Range(UpperLetters) \cup Range(LowerLetters)

\* str.isalpha(): non-empty and every character a letter
IsAlpha(s) == Len(s) > 0 /\ \A k \in 1..Len(s) : IsLetter(s[k])

\* str.strip()
Strip(s) ==
    LET idx == { k \in 1..Len(s) : ~IsSpace(s[k]) }
    IN  IF idx = {} THEN <<>>
        ELSE LET lo == CHOOSE k \in idx : \A j \in idx : k <= j
                 hi == CHOOSE k \in idx : \A j \in idx : k >= j
             IN  SubSeq(s, lo, hi)

\* `sub in s` on two str
IsSubstring(sub, s) ==
    \E off \in 0..(Len(s) - Len(sub)) :
        \A k \in 1..Len(sub) : s[off + k] = sub[k]

\* " ".join(tokens)
RECURSIVE Join(_)
Join(tokens) ==
    IF tokens = <<>> THEN <<>>
    ELSE IF Len(tokens) = 1 THEN tokens[1]
    ELSE tokens[1] \o <<" ">> \o Join(Tail(tokens))

(***************************************************************************)
(* Text Normalizer: preprocess_text.  The NLTK resources are outside the   *)
(* repository; the tokenizer splits at white space and sets punctuation    *)
(* apart, the stop-word list and the lemma table hold the entries the      *)
(* texts of the model use.                                                 *)
(***************************************************************************)
IsPunct(c) == c \in {".", "!", ",", ":"}

\* word_tokenize
RECURSIVE Tokenize(_, _)
Tokenize(s, cur) ==
    LET flush == IF cur = <<>> THEN <<>> ELSE <<cur>>
    IN  IF s = <<>> THEN flush
        ELSE IF IsSpace(Head(s)) THEN flush \o Tokenize(Tail(s), <<>>)
        ELSE IF IsPunct(Head(s)) THEN flush \o <<<<Head(s)>>>> \o Tokenize(Tail(s), <<>>)
        ELSE Tokenize(Tail(s), Append(cur, Head(s)))

word_tokenize(text) == Tokenize(text, <<>>)

\* stopwords.words("english"), the entries used
StopWords ==
    { <<"a">>, <<"i">>, <<"i","s">>, <<"i","t">>, <<"t","h","i","s">>,
      <<"t","h","e">>, <<"b","e","i","n","g">> }

\* WordNetLemmatizer().lemmatize, the entries used (plural noun -> singular)
Lemmatize(token) ==
    CASE token = <<"p","o","s","t","s">> -> <<"p","o","s","t">>
      [] token = <<"t","e","s","t","s">> -> <<"t","e","s","t">>
      [] token = <<"b","e","i","n","g","s">> -> <<"b","e","i","n","g">>
      [] OTHER -> token

preprocess_text(text) ==
    LET lowered == Lower(Strip(text))
        tokens == word_tokenize(lowered)
        kept == SelectSeq(tokens, LAMBDA t : t \notin StopWords /\ IsAlpha(t))
    IN  Join([k \in 1..Len(kept) |-> Lemmatize(kept[k])])

(***************************************************************************)
(* Sentiment Scorer: analyze_sentiment.  Scores are in millionths; VADER   *)
(* is outside the repository, its compound score is tabulated for the      *)
(* words the texts of the model use.                                       *)
(***************************************************************************)
SENTIMENT_THRESHOLD == 400000
SENTIMENT_POSITIVE == "positive"
SENTIMENT_NEUTRAL == "neutral"
SENTIMENT_NEGATIVE == "negative"

\* sentiment_analyzer.polarity_scores(text)["compound"]
\* ("like" scores 0.3612, and 0.4199 when an exclamation mark follows)
polarity_compound(text) ==
    CASE IsSubstring(<<"l","o","v","e">>, Lower(text)) -> 636900
      [] IsSubstring(<<"h","a","t","e">>, Lower(text)) -> 0 - 571900
      [] IsSubstring(<<"l","i","k","e">>, Lower(text)) /\ "!" \in Range(text) -> 419900
      [] IsSubstring(<<"l","i","k","e">>, Lower(text)) -> 361200
      [] OTHER -> 0

\* the comparisons of lines 155-161 when they exclude the threshold itself
LabelOfScoreExclusive(value) ==
    IF value > SENTIMENT_THRESHOLD THEN SENTIMENT_POSITIVE
    ELSE IF value < 0 - SENTIMENT_THRESHOLD THEN SENTIMENT_NEGATIVE
    ELSE SENTIMENT_NEUTRAL

\* lines 155-161: the label of a compound score
LabelOfScore(value) ==
    IF value >= SENTIMENT_THRESHOLD THEN SENTIMENT_POSITIVE
    ELSE IF value <= 0 - SENTIMENT_THRESHOLD THEN SENTIMENT_NEGATIVE
    ELSE SENTIMENT_NEUTRAL

analyze_sentiment(text) == LabelOfScore(polarity_compound(text))

(***************************************************************************)
(* Moderation Filter: check_for_bad_words.  The pattern is the alternation *)
(* of the word list, compiled with re.IGNORECASE and applied with          *)
(* re.search, so it matches when any term occurs anywhere in the text.     *)
(***************************************************************************)
\* terms of resources/bad_words.txt that the unit test relies on
BadWords == { <<"p","o","r","n">>, <<"d","a","m","n">> }

check_for_bad_words_case_sensitive(text) ==
    \E w \in BadWords : IsSubstring(w, text)

check_for_bad_words(text) ==
    \E w \in BadWords : IsSubstring(Lower(w), Lower(text))

(***************************************************************************)
(* Queue message bodies.  A JSON value is tagged with its type; a body is  *)
(* blank, not JSON, a JSON list, or a JSON object with some of the keys.   *)
(***************************************************************************)
JStr(s) == [t |-> "str", v |-> s]
JNum(s) == [t |-> "num", v |-> s]

JAbsent == [t |-> "absent", v |-> <<>>]

CreatedAt0 == "2023-10-01T12:00:00Z"
CreatedAt1 == "2024-02-29T23:59:59Z"

Body(form, keys, text, createdAt, source) ==
    [form |-> form, keys |-> keys, text |-> text,
     createdAt |-> createdAt, source |-> source]

MkBody(form, keys, text) == Body(form, keys, text, CreatedAt0, "bluesky")

RequiredKeys == {"text", "createdAt", "source"}

TextTestPost == <<"T","e","s","t"," ","p","o","s","t">>
TextNormal == <<"t","e","s","t"," ","p","o","s","t">>
TextPlural == <<"a"," ","t","e","s","t"," ","p","o","s","t","s">>
TextBad == <<"P","o","r","n","o">>
TextLike == <<"I"," ","l","i","k","e"," ","i","t","!">>

ValidTexts == { TextTestPost, TextNormal, TextPlural, TextBad }

Bodies ==
    { MkBody("blank", {}, JStr(<<>>)),
      MkBody("garbage", {}, JStr(<<>>)),
      MkBody("list", {}, JStr(<<>>)),
      MkBody("object", {"text", "source"}, JStr(TextNormal)),
      MkBody("object", RequiredKeys, JNum(<<"5">>)) }
    \cup { MkBody("object", RequiredKeys, JStr(t)) : t \in ValidTexts }
    \cup { Body("object", RequiredKeys, JStr(TextLike), CreatedAt1, "mastodon") }

\* well-formed messages that pass moderation: a text and its normal form
WindowBodies ==
    { MkBody("object", RequiredKeys, JStr(TextTestPost)),
      MkBody("object", RequiredKeys, JStr(TextNormal)) }

\* a well-formed message that passes moderation and whose text is its own
\* normal form
CleanBodies == { MkBody("object", RequiredKeys, JStr(TextNormal)) }

(***************************************************************************)
(* The store: table posts, and PostgreSQL's clock.  NOW() and the default  *)
(* of inserted_at are the start time of the current transaction; psycopg2  *)
(* opens a transaction at the first execute() after a commit()/rollback()  *)
(* and keeps it open until the next commit() or rollback().                *)
(***************************************************************************)
DedupWindow == 1440          \* INTERVAL '24 hours', in minutes
NoTxn == 0 - 1

Instances == {1, 2}

VARIABLES
    active,      \* the Processor instances that run
    offered,     \* the bodies the environment may put on the queue
    advances,    \* the steps, in minutes, by which the clock may move
    clock,       \* wall clock, minutes
    ticks,       \* advances of the clock so far
    queue,       \* bodies on the broker queue, not yet delivered
    published,   \* bodies put on the queue so far
    delivered,   \* ids of the bodies handed to a consumer, in order
    rows,        \* table posts, in insertion order
    pc,          \* per instance: "idle", "checked", "raised", "stopped"
    txn,         \* per instance: start time of the open transaction, or NoTxn
    pending,     \* per instance: the row about to be inserted
    last,        \* per instance: what the handler did with its latest message
    lost         \* ids acknowledged whose processing failed or was cut short

procVars ==
    <<active, offered, advances, clock, ticks, queue, published, delivered, rows, pc, txn,
      pending, last, lost>>

VARIABLES
    ipc,         \* the Ingester: "disconnected", "connecting", "listening",
                 \*   "reconnecting", "terminated"
    chan,        \* which channel `channel` is: 0 none, then 1, 2, ...
    connUp,      \* the connection under that channel is alive
    connLosses,  \* losses of the broker connection so far
    bq,          \* what basic_publish has put on the queue, in order
    frames,      \* frames received from the stream so far
    pubCalls,    \* calls of basic_publish made for the latest frame
    failed,      \* history: the publishes that raised StreamLostError
    cause,       \* what terminated the Ingester, or "none"
    recv,        \* history: the latest frame received and how far
                 \*   process_websocket_event went with it
    emitted,     \* events the stream has emitted so far
    missed,      \* history: the events emitted while the Ingester was down
    restarts     \* restarts of the Ingester so far

ingVars ==
    <<ipc, chan, connUp, connLosses, bq, frames, pubCalls, failed, cause, recv,
      emitted, missed, restarts>>

VARIABLES
    sample,      \* a text given to preprocess_text and to analyze_sentiment
    score,       \* a compound score the scorer returns
    passes,      \* the results of preprocess_text applied again and again
    label        \* the labels analyze_sentiment returns, or NoLabel

fnVars == <<sample, score, passes, label>>

NoPending ==
    [origin |-> 0, seen |-> 0, text |-> <<>>, sentiment |-> SENTIMENT_NEUTRAL,
     createdAt |-> "", source |-> ""]

NoLast ==
    [id |-> 0, outcome |-> "none", age |-> 0 - 1,
     body |-> MkBody("none", {}, JStr(<<>>)),    \* history: the body delivered
     stmts |-> <<>>,                             \* history: the statements executed
     loads |-> 0,                                \* history: calls of load_bad_word_pattern
     cursors |-> {}]                             \* history: the cursors left open

\* the cursor of process_queue_message (line 246) and the one of
\* check_if_text_exists (line 187)
OwnCursor == "cursor"
ExistsCursor == "exists_cursor"

\* the transaction a statement runs in: the open one, or a new one started now
TxnStart(i) == IF txn[i] = NoTxn THEN clock ELSE txn[i]

SelectExistsNoInterval(rs, text, now) ==
    \E k \in 1..Len(rs) : rs[k].content = text /\ rs[k].inserted_at > now

\* SELECT EXISTS(SELECT 1 FROM posts WHERE content = %s
\*               AND inserted_at > NOW() - INTERVAL '24 hours')
SelectExists(rs, text, now) ==
    \E k \in 1..Len(rs) :
        rs[k].content = text /\ rs[k].inserted_at > now - DedupWindow

StoreInsertTwice(rs, row) == Append(Append(rs, row), row)

StoreInsertAtHead(rs, row) == <<row>> \o rs

\* an insert that overwrites the latest row when there is one
StoreReplaceLast(rs, row) ==
    IF rs = <<>> THEN <<row>> ELSE [rs EXCEPT ![Len(rs)] = row]

\* INSERT INTO posts (content, sentiment, created_at, source) VALUES (...)
\* followed by commit(): id and inserted_at are assigned by the store
StoreInsert(rs, row) == Append(rs, row)

\* Screen without the schema check of lines 227-231
ScreenWithoutSchemaCheck(body) ==
    IF body.form = "blank" THEN "empty"
    ELSE IF body.form = "garbage" THEN "bad_json"
    ELSE IF body.text.t # "str" THEN "type_error"
    ELSE IF check_for_bad_words(body.text.v) THEN "bad_words"
    ELSE "clean"

\* Screen without the moderation check of lines 235-238
ScreenWithoutModeration(body) ==
    IF body.form = "blank" THEN "empty"
    ELSE IF body.form = "garbage" THEN "bad_json"
    ELSE IF body.form # "object" \/ \E key \in RequiredKeys : key \notin body.keys
    THEN "bad_record"
    ELSE IF body.text.t # "str" THEN "type_error"
    ELSE "clean"

\* what process_queue_message decides before it touches the store
Screen(body) ==
    IF body.form = "blank" THEN "empty"
    ELSE IF body.form = "garbage" THEN "bad_json"
    ELSE IF body.form # "object" \/ \E key \in RequiredKeys : key \notin body.keys
    THEN "bad_record"
    ELSE IF body.text.t # "str" THEN "type_error"
    ELSE IF check_for_bad_words(body.text.v) THEN "bad_words"
    ELSE "clean"

(***************************************************************************)
(* Content Processor.  The handler is synchronous; it is split where it    *)
(* waits for the store, which is where another instance or the clock can   *)
(* move: Deliver runs process_queue_message up to the answer of the        *)
(* existence query, Persist runs the INSERT, the commit and the handlers   *)
(* of their errors.                                                        *)
(***************************************************************************)
KeepUntilProcessed(q) == q

\* basic_consume(..., auto_ack=True): the broker drops the message when it
\* hands it to the consumer
AfterDelivery(q) == Tail(q)

\* some consumer is still in its consuming loop; once none is, nothing the
\* environment does is observed any more and the model stops
Consuming == \E i \in active : pc[i] \in {"idle", "checked"}

\* the environment puts a body on the queue
Enqueue(body) ==
    /\ Consuming
    /\ body \in offered
    /\ published < MaxMessages
    /\ Len(queue) < MaxQueue
    /\ published' = published + 1
    /\ queue' = Append(queue, [id |-> published + 1, body |-> body])
    /\ UNCHANGED <<active, offered, advances, clock, ticks, delivered, rows, pc, txn, pending, last, lost, ingVars, fnVars>>

\* the wall clock moves on, by a minute or by the dedup window.  The clock is
\* read only when a message is delivered, so it moves while one waits.
Tick(d) ==
    /\ Consuming
    /\ queue # <<>>
    /\ d \in advances
    /\ ticks < MaxTicks
    /\ ticks' = ticks + 1
    /\ clock' = clock + d
    /\ UNCHANGED <<active, offered, advances, queue, published, delivered, rows, pc, txn, pending, last, lost, ingVars, fnVars>>

\* history: the age by the wall clock, in minutes, of the youngest row that
\* holds `text`, or NoMatch
NoMatch == 0 - 1

YoungestMatch(text) ==
    LET ages == { clock - rows[k].inserted_at :
                    k \in { j \in 1..Len(rows) : rows[j].content = text } }
    IN  IF ages = {} THEN NoMatch
        ELSE CHOOSE a \in ages : \A b \in ages : a <= b

Returned(i, m, outcome) ==
    /\ last' = [last EXCEPT ![i] =
                   [id |-> m.id, outcome |-> outcome, age |-> NoMatch,
                    body |-> m.body, stmts |-> <<>>,
                    loads |-> IF outcome = "bad_words" THEN 1 ELSE 0,
                    cursors |-> {}]]
    /\ UNCHANGED <<pc, txn, pending, lost>>

Raised(i, m, outcome, start) ==
    /\ pc' = [pc EXCEPT ![i] = "raised"]
    /\ txn' = [txn EXCEPT ![i] = start]
    /\ lost' = lost \cup {m.id}
    /\ last' = [last EXCEPT ![i] =
                   [id |-> m.id, outcome |-> outcome, age |-> NoMatch,
                    body |-> m.body,
                    stmts |-> IF outcome = "select_error"
                              THEN <<"select">> ELSE <<>>,
                    loads |-> 1,
                    \* execute() raises at line 188: neither close() is reached
                    cursors |-> IF outcome = "select_error"
                                THEN {OwnCursor, ExistsCursor} ELSE {}]]
    /\ UNCHANGED pending

\* lines 246-251: cursor(), check_if_text_exists, the duplicate branch
DedupCheck(i, m, store) ==
    LET text == m.body.text.v
        preprocessed_text == preprocess_text(text)
        sentiment == analyze_sentiment(preprocessed_text)
        start == TxnStart(i)
        age == YoungestMatch(preprocessed_text)
    IN  CASE store = "cursor_error" -> Raised(i, m, "cursor_error", txn[i])
          [] store = "select_error" -> Raised(i, m, "select_error", start)
          [] OTHER ->
               /\ txn' = [txn EXCEPT ![i] = start]
               /\ IF SelectExists(rows, preprocessed_text, start)
                  THEN /\ last' = [last EXCEPT ![i] =
                                      [id |-> m.id, outcome |-> "duplicate",
                                       age |-> age, body |-> m.body,
                                       stmts |-> <<"select">>, loads |-> 1,
                                       \* close() at lines 200 and 250
                                       cursors |-> {}]]
                       /\ UNCHANGED <<pc, pending, lost>>
                  ELSE /\ pc' = [pc EXCEPT ![i] = "checked"]
                       /\ pending' = [pending EXCEPT ![i] =
                                         [origin |-> m.id, seen |-> Len(rows),
                                          text |-> text,
                                          sentiment |-> sentiment,
                                          createdAt |-> m.body.createdAt,
                                          source |-> m.body.source]]
                       /\ last' = [last EXCEPT ![i] =
                                      [id |-> m.id, outcome |-> "pending",
                                       age |-> age, body |-> m.body,
                                       stmts |-> <<"select">>, loads |-> 1,
                                       cursors |-> {OwnCursor}]]
                       /\ UNCHANGED lost

\* process_queue_message, from the delivery to the answer of the existence query
Deliver(i, store) ==
    /\ i \in active
    /\ pc[i] = "idle"
    /\ queue # <<>>
    /\ LET m == Head(queue)
           verdict == Screen(m.body)
       IN  /\ queue' = AfterDelivery(queue)
           /\ delivered' = Append(delivered, m.id)
           /\ CASE verdict \in {"empty", "bad_json", "bad_record", "bad_words"} ->
                     /\ store = "ok"
                     /\ Returned(i, m, verdict)
                [] verdict = "type_error" ->
                     /\ store = "ok"
                     /\ Raised(i, m, "type_error", txn[i])
                [] OTHER -> DedupCheck(i, m, store)
    /\ UNCHANGED <<active, offered, advances, clock, ticks, published, rows, ingVars, fnVars>>

\* NewRow with the normalized text as content
NewRowNormalized(i) ==
    [id |-> Len(rows) + 1,
     content |-> preprocess_text(pending[i].text),
     sentiment |-> pending[i].sentiment,
     created_at |-> pending[i].createdAt,
     inserted_at |-> txn[i],
     source |-> pending[i].source,
     origin |-> pending[i].origin,
     by |-> i,
     seen |-> pending[i].seen]

NewRow(i) ==
    [id |-> Len(rows) + 1,
     content |-> pending[i].text,
     sentiment |-> pending[i].sentiment,
     created_at |-> pending[i].createdAt,
     inserted_at |-> txn[i],
     source |-> pending[i].source,
     origin |-> pending[i].origin,     \* history: the message it came from,
     by |-> i,                         \* the instance that inserted it,
     seen |-> pending[i].seen]         \* the rows its existence query saw

\* lines 253-274: the INSERT, the commit, and the except/finally clauses;
\* finally closes the cursor on each of the three ways out
Persist(i, store) ==
    /\ i \in active
    /\ pc[i] = "checked"
    /\ pending' = [pending EXCEPT ![i] = NoPending]
    /\ CASE store = "ok" ->
              /\ rows' = StoreInsert(rows, NewRow(i))
              /\ txn' = [txn EXCEPT ![i] = NoTxn]
              /\ pc' = [pc EXCEPT ![i] = "idle"]
              /\ last' = [last EXCEPT ![i].outcome = "inserted",
                                     ![i].stmts = Append(@, "insert"),
                                     ![i].cursors = {}]
              /\ UNCHANGED lost
         [] store \in {"insert_error", "commit_error"} ->
              /\ txn' = [txn EXCEPT ![i] = NoTxn]
              /\ pc' = [pc EXCEPT ![i] = "idle"]
              /\ last' = [last EXCEPT ![i].outcome = "db_error",
                                     ![i].stmts = Append(@, "insert"),
                                     ![i].cursors = {}]
              /\ lost' = lost \cup {pending[i].origin}
              /\ UNCHANGED rows
         [] OTHER ->
              \* the statement fails and so does rollback(), inside the except
              /\ pc' = [pc EXCEPT ![i] = "raised"]
              /\ last' = [last EXCEPT ![i].outcome = "rollback_error",
                                     ![i].stmts = Append(@, "insert"),
                                     ![i].cursors = {}]
              /\ lost' = lost \cup {pending[i].origin}
              /\ UNCHANGED <<rows, txn>>
    /\ UNCHANGED <<active, offered, advances, clock, ticks, queue, published, delivered, ingVars, fnVars>>

\* the process is stopped while the handler waits for the store
Interrupt(i) ==
    /\ i \in active
    /\ pc[i] = "checked"
    /\ pc' = [pc EXCEPT ![i] = "stopped"]
    /\ pending' = [pending EXCEPT ![i] = NoPending]
    /\ last' = [last EXCEPT ![i].outcome = "interrupted"]
    /\ lost' = lost \cup {pending[i].origin}
    /\ UNCHANGED <<active, offered, advances, clock, ticks, queue, published, delivered, rows, txn, ingVars, fnVars>>

DeliverStore == {"ok", "cursor_error", "select_error"}
PersistStore == {"ok", "insert_error", "commit_error", "rollback_error"}

InitProc(instances, menu, steps) ==
    /\ active = instances
    /\ offered = menu
    /\ advances = steps
    /\ clock = 0
    /\ ticks = 0
    /\ queue = <<>>
    /\ published = 0
    /\ delivered = <<>>
    /\ rows = <<>>
    /\ pc = [i \in Instances |-> "idle"]
    /\ txn = [i \in Instances |-> NoTxn]
    /\ pending = [i \in Instances |-> NoPending]
    /\ last = [i \in Instances |-> NoLast]
    /\ lost = {}

NextProc ==
    \/ \E body \in Bodies : Enqueue(body)
    \/ \E d \in {1, DedupWindow} : Tick(d)
    \/ \E i \in Instances, store \in DeliverStore : Deliver(i, store)
    \/ \E i \in Instances, store \in PersistStore : Persist(i, store)
    \/ \E i \in Instances : Interrupt(i)

(***************************************************************************)
(* Stream Ingester: stream frames.  A frame is not JSON, a JSON list, a    *)
(* JSON number, a JSON string, null, or a JSON object; commit is absent, a *)
(* number or an object; record, $type, langs, text and createdAt may be    *)
(* absent.                                                                 *)
(***************************************************************************)
VANCOUVER_FILTER_TERMS ==
    { <<"v","a","n","c","o","u","v","e","r">>,
      <<"y","v","r">>,
      <<"v","a","n","c","i","t","y">>,
      <<"v","a","n","c","o","u","v","e","r","b","c">> }

PostType == "app.bsky.feed.post"

Frame(form, commit, record, hasType, type, hasLangs, langs, text, hasCreatedAt) ==
    [form |-> form, commit |-> commit, record |-> record,
     hasType |-> hasType, type |-> type,
     hasLangs |-> hasLangs, langs |-> langs, text |-> text,
     hasCreatedAt |-> hasCreatedAt,
     createdAt |-> IF hasCreatedAt THEN CreatedAt0 ELSE ""]

Post(hasLangs, langs, text, hasCreatedAt) ==
    Frame("object", "object", "object", TRUE, PostType, hasLangs, langs, text,
          hasCreatedAt)

NotAPost(form, commit, record, hasType, type) ==
    Frame(form, commit, record, hasType, type, FALSE, <<>>, JAbsent, FALSE)

TextYvr == <<"Y","V","R"," ","o","k">>
TextVan == <<"I"," ","l","o","v","e"," ","V","a","n">>

LangEs == <<"e","s">>
LangEn == <<"e","n">>

\* filter_record_by_content when every entry of langs is searched
filter_record_by_any_lang(f) ==
    IF f.hasLangs /\ f.langs # <<>>
       /\ ~\E k \in 1..Len(f.langs) : IsSubstring(<<"e","n">>, f.langs[k])
    THEN FALSE
    ELSE IF f.text.t # "str" THEN FALSE
    ELSE \E term \in VANCOUVER_FILTER_TERMS : IsSubstring(term, Lower(f.text.v))

\* filter_record_by_content when the text is searched as it is written
filter_record_by_content_as_written(f) ==
    IF f.hasLangs /\ f.langs # <<>> /\ ~IsSubstring(<<"e","n">>, f.langs[1])
    THEN FALSE
    ELSE IF f.text.t # "str" THEN FALSE
    ELSE \E term \in VANCOUVER_FILTER_TERMS : IsSubstring(term, f.text.v)

\* transform_record_to_message when it takes the lower-cased text
transform_lowered_record_to_message(f) ==
    [fields |-> <<"source", "text", "createdAt">>,
     source |-> "bluesky",
     text |-> Lower(f.text.v),
     createdAt |-> f.createdAt]

Frames ==
    { NotAPost("garbage", "absent", "absent", FALSE, ""),
      NotAPost("list", "absent", "absent", FALSE, ""),
      NotAPost("number", "absent", "absent", FALSE, ""),
      NotAPost("string", "absent", "absent", FALSE, ""),
      NotAPost("null", "absent", "absent", FALSE, ""),
      NotAPost("object", "absent", "absent", FALSE, ""),
      NotAPost("object", "number", "absent", FALSE, ""),
      NotAPost("object", "object", "absent", FALSE, ""),
      NotAPost("object", "object", "object", FALSE, ""),
      NotAPost("object", "object", "object", TRUE, "app.bsky.feed.like"),
      Post(FALSE, <<>>, JStr(TextYvr), TRUE),
      Post(FALSE, <<>>, JStr(TextVan), TRUE),
      Post(FALSE, <<>>, JAbsent, TRUE),
      Post(FALSE, <<>>, JNum(<<"5">>), TRUE),
      Post(TRUE, <<>>, JStr(TextYvr), TRUE),
      Post(TRUE, <<LangEs>>, JStr(TextYvr), TRUE),
      Post(TRUE, <<LangEs, LangEn>>, JStr(TextYvr), TRUE),
      [Post(TRUE, <<LangEn, LangEs>>, JStr(TextYvr), TRUE)
          EXCEPT !.createdAt = CreatedAt1],
      Post(FALSE, <<>>, JStr(TextYvr), FALSE) }

\* parse_and_filter_record: "none" for None, "raise" for an exception that
\* is not caught (`in` applied to a number or to None raises TypeError),
\* "record".  The JSON list is empty and the JSON string does not hold the
\* word commit, so `"commit" not in data` is true of both.
parse_and_filter_record(f) ==
    IF f.form = "garbage" THEN "none"
    ELSE IF f.form \in {"number", "null"} THEN "raise"
    ELSE IF f.form \in {"list", "string"} \/ f.commit = "absent" THEN "none"
    ELSE IF f.commit = "number" THEN "raise"
    ELSE IF f.record = "absent" THEN "none"
    ELSE IF ~f.hasType \/ f.type # PostType THEN "none"
    ELSE "record"

\* filter_record_by_content returns the record, not None
filter_record_by_content(f) ==
    IF f.hasLangs /\ f.langs # <<>> /\ ~IsSubstring(<<"e","n">>, f.langs[1])
    THEN FALSE
    ELSE IF f.text.t # "str" THEN FALSE
    ELSE \E term \in VANCOUVER_FILTER_TERMS : IsSubstring(term, Lower(f.text.v))

\* transform_record_to_message; record["createdAt"] raises KeyError when the
\* key is absent
transform_record_to_message(f) ==
    [fields |-> <<"source", "text", "createdAt">>,   \* json.dumps keeps the order
     source |-> "bluesky",
     text |-> f.text.v,
     createdAt |-> f.createdAt]

\* what process_websocket_event does with a frame before it publishes
EventOutcome(f) ==
    IF parse_and_filter_record(f) = "raise" THEN "raise"
    ELSE IF parse_and_filter_record(f) = "none" THEN "skip"
    ELSE IF ~filter_record_by_content(f) THEN "skip"
    ELSE IF ~f.hasCreatedAt THEN "raise"
    ELSE "publish"

\* history: the statement of process_websocket_event at which a frame that
\* is not published stops
EventStep(f) ==
    IF parse_and_filter_record(f) = "raise" THEN "parse_error"
    ELSE IF parse_and_filter_record(f) = "none" THEN "not_a_post"
    ELSE IF ~filter_record_by_content(f) THEN "filtered_out"
    ELSE IF ~f.hasCreatedAt THEN "transform_error"
    ELSE "publish"

(***************************************************************************)
(* Stream Ingester: main and process_websocket_event.                      *)
(***************************************************************************)
NoFrame == [frame |-> NotAPost("none", "absent", "absent", FALSE, ""),
            step |-> "none"]

PublishTwice(q, entry) == Append(Append(q, entry), entry)

PublishAtHead(q, entry) == <<entry>> \o q

\* channel.basic_publish on a live connection
PublishOnce(q, entry) == Append(q, entry)

Terminate(why) ==
    /\ ipc' = "terminated"
    /\ cause' = why

RecoverableAny(err) == TRUE

\* except pika.exceptions.StreamLostError: the one exception of basic_publish
\* that process_websocket_event catches
Recoverable(err) == err = "stream_lost"

\* main, line 188: the first setup_queue()
Start(ok) ==
    /\ ipc = "disconnected"
    /\ IF ok
       THEN /\ ipc' = "connecting"
            /\ chan' = chan + 1
            /\ connUp' = TRUE
            /\ UNCHANGED cause
       ELSE /\ Terminate("startup")
            /\ UNCHANGED <<chan, connUp>>
    /\ UNCHANGED <<connLosses, bq, frames, pubCalls, failed, recv, emitted, missed, restarts, procVars, fnVars>>

\* main, line 192: connect(BLUESKY_JETSTREAM_WEBSOCKET_URL)
Connect(ok) ==
    /\ ipc = "connecting"
    /\ IF ok
       THEN ipc' = "listening" /\ UNCHANGED cause
       ELSE Terminate("startup")
    /\ UNCHANGED <<chan, connUp, connLosses, bq, frames, pubCalls, failed, recv, emitted, missed, restarts, procVars, fnVars>>

\* the connection to the broker drops
ConnLost ==
    /\ ipc \in {"connecting", "listening"}
    /\ connUp
    /\ connLosses < MaxConnLoss
    /\ connUp' = FALSE
    /\ connLosses' = connLosses + 1
    /\ UNCHANGED <<ipc, chan, bq, frames, pubCalls, failed, cause, recv, emitted, missed, restarts, procVars, fnVars>>

\* the stream connection drops: websocket.recv() raises
StreamClosed ==
    /\ ipc = "listening"
    /\ Terminate("stream")
    /\ UNCHANGED <<chan, connUp, connLosses, bq, frames, pubCalls, failed, recv, emitted, missed, restarts, procVars, fnVars>>

\* main, lines 197-198: one frame is received and process_websocket_event
\* runs on it.  On a dead connection basic_publish raises StreamLostError or
\* another pika exception.
ProcessEvent(f, err) ==
    /\ ipc = "listening"
    /\ emitted < MaxFrames
    /\ frames' = frames + 1
    /\ emitted' = emitted + 1
    /\ LET entry == [frame |-> frames + 1, pos |-> emitted + 1, chan |-> chan,
                     from |-> f, body |-> transform_record_to_message(f)]
       IN  CASE EventOutcome(f) = "raise" ->
                  /\ err = "none"
                  /\ Terminate("frame")
                  /\ pubCalls' = 0
                  /\ recv' = [frame |-> f, step |-> EventStep(f)]
                  /\ UNCHANGED <<bq, failed>>
             [] EventOutcome(f) = "skip" ->
                  /\ err = "none"
                  /\ pubCalls' = 0
                  /\ recv' = [frame |-> f, step |-> EventStep(f)]
                  /\ UNCHANGED <<ipc, cause, bq, failed>>
             [] OTHER ->
                  /\ pubCalls' = 1
                  /\ IF connUp
                     THEN /\ err = "none"
                          /\ bq' = PublishOnce(bq, entry)
                          /\ recv' = [frame |-> f, step |-> "published"]
                          /\ UNCHANGED <<ipc, cause, failed>>
                     ELSE /\ err # "none"
                          /\ recv' = [frame |-> f,
                                      step |-> IF err = "stream_lost"
                                               THEN "stream_lost"
                                               ELSE "publish_error"]
                          /\ IF Recoverable(err)
                             THEN /\ ipc' = "reconnecting"
                                  /\ failed' = Append(failed, entry)
                                  /\ UNCHANGED <<cause, bq>>
                             ELSE /\ Terminate("publish")
                                  /\ UNCHANGED <<bq, failed>>
    /\ UNCHANGED <<chan, connUp, connLosses, missed, restarts, procVars, fnVars>>

ReconnectAndRetry(ok) ==
    /\ ipc = "reconnecting"
    /\ IF ok
       THEN /\ ipc' = "listening"
            /\ chan' = chan + 1
            /\ connUp' = TRUE
            /\ bq' = Append(bq, [failed[Len(failed)] EXCEPT !.chan = chan + 1])
            /\ pubCalls' = pubCalls + 1
            /\ UNCHANGED cause
       ELSE /\ Terminate("reconnect")
            /\ UNCHANGED <<chan, connUp, bq, pubCalls>>
    /\ UNCHANGED <<connLosses, frames, failed, recv, emitted, missed, restarts, procVars, fnVars>>

\* main, lines 200-203: process_websocket_event returned False, the channel
\* is set up again; an exception of setup_queue() is not caught
Reconnect(ok) ==
    /\ ipc = "reconnecting"
    /\ IF ok
       THEN /\ ipc' = "listening"
            /\ chan' = chan + 1
            /\ connUp' = TRUE
            /\ UNCHANGED cause
       ELSE /\ Terminate("reconnect")
            /\ UNCHANGED <<chan, connUp>>
    /\ UNCHANGED <<connLosses, bq, frames, pubCalls, failed, recv, emitted, missed, restarts, procVars, fnVars>>

\* an event is emitted by the stream while no Ingester is subscribed
Downtime ==
    /\ ipc = "terminated"
    /\ cause = "stream"
    /\ restarts < MaxRestarts
    /\ emitted < MaxFrames
    /\ emitted' = emitted + 1
    /\ missed' = missed \cup {emitted + 1}
    /\ UNCHANGED <<ipc, chan, connUp, connLosses, bq, frames, pubCalls, failed, cause, recv, restarts, procVars, fnVars>>

\* Restart that asks the stream for the events since the last one received
RestartAndReplay ==
    /\ ipc = "terminated"
    /\ cause = "stream"
    /\ restarts < MaxRestarts
    /\ ipc' = "disconnected"
    /\ cause' = "none"
    /\ connUp' = FALSE
    /\ pubCalls' = 0
    /\ restarts' = restarts + 1
    /\ bq' = IF missed = {} THEN bq
             ELSE Append(bq, [frame |-> frames, chan |-> chan,
                              pos |-> CHOOSE n \in missed : TRUE,
                              from |-> Post(FALSE, <<>>, JStr(TextYvr), TRUE),
                              body |-> transform_record_to_message(
                                         Post(FALSE, <<>>, JStr(TextYvr), TRUE))])
    /\ UNCHANGED <<chan, connLosses, frames, failed, recv, emitted, missed, procVars, fnVars>>

\* the process is started again after a lost stream: main runs from its
\* first line, and connect() subscribes without a cursor, from now on
Restart ==
    /\ ipc = "terminated"
    /\ cause = "stream"
    /\ restarts < MaxRestarts
    /\ ipc' = "disconnected"
    /\ cause' = "none"
    /\ connUp' = FALSE
    /\ pubCalls' = 0
    /\ restarts' = restarts + 1
    /\ UNCHANGED <<chan, connLosses, bq, frames, failed, recv, emitted, missed, procVars, fnVars>>

InitIngest ==
    /\ ipc = "disconnected"
    /\ chan = 0
    /\ connUp = FALSE
    /\ connLosses = 0
    /\ bq = <<>>
    /\ frames = 0
    /\ pubCalls = 0
    /\ failed = <<>>
    /\ cause = "none"
    /\ recv = NoFrame
    /\ emitted = 0
    /\ missed = {}
    /\ restarts = 0

NextIngest ==
    \/ \E ok \in BOOLEAN : Start(ok)
    \/ \E ok \in BOOLEAN : Connect(ok)
    \/ ConnLost
    \/ StreamClosed
    \/ \E f \in Frames, err \in {"none", "stream_lost", "other"} : ProcessEvent(f, err)
    \/ \E ok \in BOOLEAN : Reconnect(ok)

\* posts without langs: one that holds a keyword and one that does not
PostFrames ==
    { Post(FALSE, <<>>, JStr(TextYvr), TRUE),
      Post(FALSE, <<>>, JStr(TextVan), TRUE) }

\* the Ingester under a supervisor that starts it again after a lost stream
NextSupervised ==
    \/ \E ok \in BOOLEAN : Start(ok)
    \/ \E ok \in BOOLEAN : Connect(ok)
    \/ ConnLost
    \/ StreamClosed
    \/ \E f \in PostFrames, err \in {"none", "stream_lost", "other"} : ProcessEvent(f, err)
    \/ \E ok \in BOOLEAN : Reconnect(ok)
    \/ Downtime
    \/ Restart

(***************************************************************************)
(* The Text Normalizer and the Sentiment Scorer on their own: a text built *)
(* of words and a compound score are chosen, preprocess_text is applied to *)
(* the text and then to its own result, and the score is labelled.         *)
(***************************************************************************)
Vocabulary ==
    { <<>>, <<"a">>, <<"!">>, <<"P","o","s","t">>, <<"t","e","s","t","s">>,
      <<"b","e","i","n","g","s">>, <<"l","o","v","e">> }

\* the texts of at most MaxWords words, separated by one blank
Texts ==
    { Join(ws) : ws \in UNION { [1..n -> Vocabulary] : n \in 0..MaxWords } }

\* compound scores (millionths) at, next to and away from the thresholds
Scores ==
    { 0 - 1000000, 0 - 571900, 0 - 400001, 0 - 400000, 0 - 399999, 0,
      361200, 399999, 400000, 400001, 636900, 1000000 }

NoLabel == [ofText |-> "none", ofScore |-> "none"]

\* preprocess_text(text), then preprocess_text of the result
Normalize ==
    /\ Len(passes) < MaxPasses
    /\ passes' = Append(passes,
                        preprocess_text(IF passes = <<>> THEN sample
                                        ELSE passes[Len(passes)]))
    /\ UNCHANGED <<sample, score, label, procVars, ingVars>>

\* analyze_sentiment on the text, and its comparisons on the score
Analyze ==
    /\ label = NoLabel
    /\ label' = [ofText |-> analyze_sentiment(sample),
                 ofScore |-> LabelOfScore(score)]
    /\ UNCHANGED <<sample, score, passes, procVars, ingVars>>

\* no text is under study
InitIdle ==
    /\ sample = <<>>
    /\ score = 0
    /\ passes = <<>>
    /\ label = NoLabel

InitText ==
    /\ sample \in Texts
    /\ score \in Scores
    /\ passes = <<>>
    /\ label = NoLabel

NextText == Normalize \/ Analyze

vars == <<procVars, ingVars, fnVars>>

\* one Content Processor, fed every kind of body, minute by minute
InitOne == InitProc({1}, Bodies, {1}) /\ InitIngest /\ InitIdle

SpecProc == InitOne /\ [][NextProc]_vars

\* one Content Processor, fed well-formed messages that pass moderation,
\* over times of the order of the dedup window
InitWindow == InitProc({1}, WindowBodies, {1, DedupWindow}) /\ InitIngest /\ InitIdle

SpecWindow == InitWindow /\ [][NextProc]_vars

\* two Content Processors on the same queue and store, fed well-formed
\* messages that pass moderation
InitTwo == InitProc({1, 2}, CleanBodies, {1, DedupWindow}) /\ InitIngest /\ InitIdle

SpecMulti == InitTwo /\ [][NextProc]_vars

\* the Stream Ingester
InitNone == InitProc({}, {}, {}) /\ InitIngest /\ InitIdle

SpecIngest == InitNone /\ [][NextIngest]_vars

\* the Stream Ingester, started again after a lost stream
SpecRestart == InitNone /\ [][NextSupervised]_vars

\* the Text Normalizer and the Sentiment Scorer on their own
InitFunctions == InitProc({}, {}, {}) /\ InitIngest /\ InitText

SpecText == InitFunctions /\ [][NextText]_vars

(***************************************************************************)
(* Properties of the Content Processor.                                    *)
(***************************************************************************)
QueueIds == { queue[k].id : k \in 1..Len(queue) }

RowsOf(id) == { k \in 1..Len(rows) : rows[k].origin = id }

Abs(n) == IF n < 0 THEN 0 - n ELSE n

\* C1: every step of the Processor leaves table posts unchanged or appends
\* exactly one row to it, and the appended row comes from a message that has
\* no row yet: no message ever adds two rows.
C1_OneRowOrNone ==
    [][ \/ rows' = rows
        \/ /\ Len(rows') = Len(rows) + 1
           /\ SubSeq(rows', 1, Len(rows)) = rows
           /\ RowsOf(rows'[Len(rows')].origin) = {} ]_vars

C1_Witness ==
    /\ Len(rows) = 1
    /\ Len(delivered) >= 2
    /\ last[1].outcome \in {"empty", "bad_json", "bad_record", "bad_words", "db_error"}
    /\ RowsOf(last[1].id) = {}

\* C2: no message body and no store failure makes an exception leave
\* process_queue_message: the consumer never stops on a raised exception.
C2_NeverRaises == \A i \in active : pc[i] # "raised"

\* C3: table posts never holds two rows whose normalized contents are equal
\* and whose inserted_at values are less than 24 hours apart.
C3_NoRecentDuplicates ==
    \A j, k \in 1..Len(rows) :
        (j < k /\ preprocess_text(rows[j].content) = preprocess_text(rows[k].content))
            => Abs(rows[k].inserted_at - rows[j].inserted_at) >= DedupWindow

\* C4: a well-formed message that passes moderation goes on to the insert
\* only if no row holding its normalized text was inserted less than 24 hours
\* before it is processed, and is dropped as a duplicate only if some such
\* row was inserted no more than 24 hours before.
C4_DedupWindow ==
    \A i \in active :
        /\ last[i].outcome = "duplicate" =>
              (last[i].age # NoMatch /\ last[i].age <= DedupWindow)
        /\ last[i].outcome \in {"pending", "inserted"} =>
              (last[i].age = NoMatch \/ last[i].age >= DedupWindow)

\* a term of the moderation word list occurs in the text, whatever the case
HasModerationTerm(text) ==
    \E w \in BadWords : \E off \in 0..(Len(text) - Len(w)) :
        \A k \in 1..Len(w) : LowerChar(text[off + k]) = LowerChar(w[k])

\* C5: no row of table posts holds a text in which a term of the moderation
\* word list occurs (case-insensitive, anywhere in the text).
C5_NoBadWordRow ==
    \A k \in 1..Len(rows) : ~HasModerationTerm(rows[k].content)

C5_Witness ==
    /\ last[1].outcome = "bad_words"
    /\ Len(rows) >= 1
    /\ RowsOf(last[1].id) = {}

\* C6: a message is off the queue from the moment it is delivered, while its
\* processing is still under way; a message whose processing failed or was
\* cut short after that was delivered once, is not on the queue again and has
\* no row.
C6_AtMostOnce ==
    /\ \A i \in active : pc[i] = "checked" => pending[i].origin \notin QueueIds
    /\ \A id \in lost :
          /\ id \notin QueueIds
          /\ RowsOf(id) = {}
          /\ Cardinality({ k \in 1..Len(delivered) : delivered[k] = id }) = 1

C6_Witness ==
    \E id \in lost :
        /\ last[1].id > id
        /\ last[1].outcome = "inserted"

\* C7: with two Processors on one store, two rows of equal normalized content
\* less than 24 hours apart come only from the gap between the existence
\* query and the insert: they were inserted by different instances and the
\* query of the later row ran before the earlier row was committed.
C7_DuplicatesOnlyFromRace ==
    \A j, k \in 1..Len(rows) :
        ( /\ j < k
          /\ preprocess_text(rows[j].content) = preprocess_text(rows[k].content)
          /\ Abs(rows[k].inserted_at - rows[j].inserted_at) < DedupWindow )
            => (rows[j].by # rows[k].by /\ rows[k].seen < j)

\* both instances passed the existence query for the same text before either
\* committed, both inserted, and the table holds the duplicate pair
C7_Witness ==
    /\ Len(rows) = 2
    /\ rows[1].content = rows[2].content
    /\ Abs(rows[2].inserted_at - rows[1].inserted_at) < DedupWindow
    /\ rows[1].by # rows[2].by
    /\ rows[1].seen = 0 /\ rows[2].seen = 0

\* history: the position of message `id` in the order of delivery
DeliveryIndex(id) == CHOOSE n \in 1..Len(delivered) : delivered[n] = id

\* C12: with one Processor the rows are in the order in which their messages
\* were delivered: of two rows the one inserted first, which has the smaller
\* id, comes from the message delivered first.
C12_PersistOrder ==
    \A j, k \in 1..Len(rows) :
        j < k => /\ rows[j].id < rows[k].id
                 /\ DeliveryIndex(rows[j].origin) < DeliveryIndex(rows[k].origin)

\* two messages were persisted and a message delivered between them was not
C12_Witness ==
    /\ Len(rows) >= 2
    /\ DeliveryIndex(rows[2].origin) > DeliveryIndex(rows[1].origin) + 1

\* the body is blank, not JSON, not a mapping, or lacks a required key
IsInvalidBody(b) ==
    \/ b.form \in {"blank", "garbage"}
    \/ b.form # "object"
    \/ RequiredKeys \ b.keys # {}

\* C18: for a body that is blank, not JSON, not a mapping or without one of
\* the keys text, createdAt, source, the handler returns without executing
\* any statement, and no row comes from that message.
C18_NoStoreOperation ==
    \A i \in active :
        (last[i].outcome # "none" /\ IsInvalidBody(last[i].body)) =>
            /\ last[i].outcome \in {"empty", "bad_json", "bad_record"}
            /\ last[i].stmts = <<>>
            /\ RowsOf(last[i].id) = {}

\* a message was persisted before, and the latest one, a mapping without
\* createdAt, was dropped
C18_Witness ==
    /\ Len(rows) >= 1
    /\ last[1].body.form = "object"
    /\ "createdAt" \notin last[1].body.keys
    /\ last[1].outcome = "bad_record"

\* C19: the row of an inserted message holds the text of the message as it
\* was written, the label of its normalized text, its createdAt and its
\* source; the row is the only one of that message.
C19_InsertedRow ==
    \A i \in active :
        last[i].outcome = "inserted" =>
            /\ Cardinality(RowsOf(last[i].id)) = 1
            /\ \A k \in RowsOf(last[i].id) :
                  /\ rows[k].content = last[i].body.text.v
                  /\ rows[k].sentiment =
                        analyze_sentiment(preprocess_text(last[i].body.text.v))
                  /\ rows[k].created_at = last[i].body.createdAt
                  /\ rows[k].source = last[i].body.source

\* the message "I like it!" of another source was inserted: its text is not
\* in normal form and the label of the text as written is not the label of
\* the normalized text
C19_Witness ==
    /\ last[1].outcome = "inserted"
    /\ last[1].body.text.v = TextLike
    /\ last[1].body.source # "bluesky"
    /\ preprocess_text(TextLike) # TextLike
    /\ analyze_sentiment(TextLike) # analyze_sentiment(preprocess_text(TextLike))

\* C20: for a well-formed message without moderation terms the handler
\* executes exactly one statement, the INSERT.
C20_OnlyTheInsert ==
    \A i \in active :
        ( /\ last[i].outcome \in {"duplicate", "inserted", "db_error"}
          /\ ~IsInvalidBody(last[i].body) ) => last[i].stmts = <<"insert">>

\* the outcomes of a handler that met an error of the store
StoreErrors == {"cursor_error", "select_error", "db_error", "rollback_error"}

\* C21: after a store error in the handling of a message the transaction is
\* rolled back and the message is dropped: the message has no row and is not
\* on the queue again, the connection has no open or failed transaction, and
\* the consumer goes on (no exception stopped it).
C21_StoreErrorRollsBack ==
    \A i \in active :
        last[i].outcome \in StoreErrors =>
            /\ RowsOf(last[i].id) = {}
            /\ last[i].id \notin QueueIds
            /\ txn[i] = NoTxn
            /\ pc[i] # "raised"

\* the message passed the schema check and moderation
PassedScreening(b) ==
    /\ ~IsInvalidBody(b)
    /\ b.text.t = "str"
    /\ ~HasModerationTerm(b.text.v)

C27_AppendOnly ==
    [][ /\ Len(rows') >= Len(rows)
        /\ \A k \in 1..Len(rows) : rows'[k] = rows[k] ]_vars

\* two rows are there and the latest message met a store error and was
\* rolled back
C27_Witness ==
    /\ Len(rows) >= 2
    /\ last[1].outcome = "db_error"

\* C28: no message makes the handler load and compile the word list: that
\* was done once, at startup.
C28_WordListLoadedOnce ==
    \A i \in active : last[i].loads = 0

\* C29: a message that reached the dedup check is dropped as a duplicate if
\* and only if some row whose raw content equals the normalized text of the
\* message was inserted less than 24 hours before the check.
C29_DedupOnRawContent ==
    \A i \in active :
        last[i].outcome \in {"duplicate", "pending", "inserted", "db_error"} =>
            (last[i].outcome = "duplicate"
                <=> (last[i].age # NoMatch /\ last[i].age < DedupWindow))

\* the ways out of process_queue_message that C31 names: duplicate found,
\* insert succeeded, insert failed, dedup query failed
StorePaths == {"duplicate", "inserted", "db_error", "select_error"}

\* C31: when process_queue_message has returned or raised on one of the
\* store paths, every cursor it opened is closed and the transaction on the
\* connection has been ended by a commit or a rollback.
C31_CursorsClosedTxnEnded ==
    \A i \in active :
        last[i].outcome \in StorePaths =>
            /\ last[i].cursors = {}
            /\ txn[i] = NoTxn

\* C22: analyze_sentiment returns one of the three labels: positive exactly
\* when the compound score is at least 0.40, negative exactly when it is at
\* most -0.40, neutral otherwise; the empty text is neutral.
C22_SentimentThresholds ==
    label # NoLabel =>
        /\ label.ofScore \in {"positive", "neutral", "negative"}
        /\ label.ofText \in {"positive", "neutral", "negative"}
        /\ label.ofScore = "positive" <=> score >= 400000
        /\ label.ofScore = "negative" <=> score <= 0 - 400000
        /\ label.ofScore = "neutral" <=> (0 - 400000 < score /\ score < 400000)
        /\ sample = <<>> => label.ofText = "neutral"

\* a score that is exactly the threshold was labelled positive
C22_Witness ==
    /\ score = 400000
    /\ label.ofScore = "positive"

\* C23: preprocess_text applied to its own result returns that result.
C23_Idempotent ==
    \A n \in 2..Len(passes) : passes[n] = passes[n - 1]

(***************************************************************************)
(* Properties of the Stream Ingester.                                      *)
(***************************************************************************)
FailedFrames == { failed[k].frame : k \in 1..Len(failed) }

\* C8: for every frame, basic_publish is called at most once and at most one
\* message of that frame is on the queue.
C8_AtMostOnePublish ==
    /\ pubCalls <= 1
    /\ \A n \in 1..frames :
          Cardinality({ k \in 1..Len(bq) : bq[k].frame = n }) <= 1

\* one frame was filtered out, one was published, and for one the publish
\* failed
C8_Witness ==
    /\ Len(failed) >= 1
    /\ Len(bq) >= 1
    /\ pubCalls = 0
    /\ frames >= 3

\* C9: after a publish that failed on a lost queue connection the Ingester
\* never terminates in re-establishing the channel: it goes back to
\* listening.
C9_ReconnectsAndResumes == ~(ipc = "terminated" /\ cause = "reconnect")

\* C10: the message of a frame whose publish failed on a lost connection is
\* never on the queue, also after the channel has been set up again.
C10_FailedFrameDropped ==
    \A k \in 1..Len(bq) : bq[k].frame \notin FailedFrames

\* a publish failed, the channel was set up again and a later frame was
\* published on it
C10_Witness ==
    \E k \in 1..Len(bq) :
        /\ bq[k].chan >= 2
        /\ \E n \in FailedFrames : n < bq[k].frame

\* C11: the messages on the queue are in the order in which their frames
\* arrived: of two published messages the one published first comes from the
\* frame received first.
C11_PublishOrder ==
    \A j, k \in 1..Len(bq) : j < k => bq[j].frame < bq[k].frame

\* two messages were published and a frame received between theirs was not
C11_Witness ==
    /\ Len(bq) >= 2
    /\ bq[2].frame > bq[1].frame + 1

\* the frame is a post: a JSON object with an object under commit, a record
\* under commit.record and the target $type
IsPostFrame(f) ==
    /\ f.form = "object"
    /\ f.commit = "object"
    /\ f.record = "object"
    /\ f.hasType
    /\ f.type = PostType

\* C13: a frame that is not a post is dropped: nothing is published for it,
\* nothing is raised, and the Ingester is not terminated by it.
C13_NonPostDropped ==
    (recv.step # "none" /\ ~IsPostFrame(recv.frame)) =>
        /\ recv.step = "not_a_post"
        /\ ~(ipc = "terminated" /\ cause = "frame")
        /\ \A k \in 1..Len(bq) : bq[k].frame # frames

\* the first entry of langs is there and does not contain "en"
LangRejects(f) ==
    /\ f.hasLangs
    /\ Len(f.langs) >= 1
    /\ \A off \in 0..(Len(f.langs[1]) - 2) :
          ~(f.langs[1][off + 1] = "e" /\ f.langs[1][off + 2] = "n")

\* a keyword occurs in the text, whatever the case of the text
HasKeyword(text) ==
    \E term \in VANCOUVER_FILTER_TERMS : \E off \in 0..(Len(text) - Len(term)) :
        \A k \in 1..Len(term) : LowerChar(text[off + k]) = term[k]

TextMatches(f) == f.text.t = "str" /\ HasKeyword(f.text.v)

\* the steps of process_websocket_event that lie behind the content filter
PastFilter == {"transform_error", "published", "stream_lost", "publish_error"}

\* C14: no message comes from a record whose first langs entry lacks "en",
\* whatever its text and its later langs entries: such a record stops at the
\* content filter and basic_publish is not called; a record without langs,
\* or with an empty langs, whose text holds a keyword passes the filter.
C14_LanguageFilter ==
    /\ \A k \in 1..Len(bq) : ~LangRejects(bq[k].from)
    /\ \A k \in 1..Len(failed) : ~LangRejects(failed[k].from)
    /\ (IsPostFrame(recv.frame) /\ LangRejects(recv.frame)) =>
          (recv.step = "filtered_out" /\ pubCalls = 0)
    /\ ( /\ IsPostFrame(recv.frame)
         /\ (~recv.frame.hasLangs \/ recv.frame.langs = <<>>)
         /\ TextMatches(recv.frame) ) => recv.step \in PastFilter

\* a record without langs was published, and the latest frame, with a
\* keyword and langs = ["es", "en"], was filtered out
C14_Witness ==
    /\ \E k \in 1..Len(bq) : ~bq[k].from.hasLangs
    /\ recv.frame.hasLangs
    /\ recv.frame.langs = <<LangEs, LangEn>>
    /\ TextMatches(recv.frame)
    /\ recv.step = "filtered_out"

C17_MessageHasTypePost ==
    /\ \A k \in 1..Len(bq) :
          bq[k].body.fields = <<"source", "type", "text", "createdAt">>
    /\ \A k \in 1..Len(failed) :
          failed[k].body.fields = <<"source", "type", "text", "createdAt">>

\* C24: the Ingester moves only from disconnected to connecting, from
\* connecting to listening, from listening to reconnecting and from
\* reconnecting to listening; the channel is set up at the start and after a
\* failed publish only; reconnecting leads back to listening; it stops only
\* when the stream is lost or it cannot start, and leaves the stopped state
\* only when it is started again.
C24_StateMachine ==
    [][ /\ \/ ipc' = ipc
           \/ <<ipc, ipc'>> \in { <<"disconnected", "connecting">>,
                                  <<"connecting", "listening">>,
                                  <<"listening", "reconnecting">>,
                                  <<"reconnecting", "listening">> }
           \/ ipc' = "terminated" /\ cause' \in {"stream", "startup"}
           \/ ipc = "terminated" /\ ipc' = "disconnected" /\ restarts' # restarts
        /\ chan' # chan =>
              \/ ipc = "disconnected"
              \/ ipc = "reconnecting" /\ recv.step = "stream_lost" ]_vars

\* C25: once the stream is lost the Ingester publishes nothing and stays
\* stopped until it is started again, and no event that the stream emitted
\* while it was down is ever on the queue.
C25_NoReplayAfterStreamLoss ==
    [][ /\ (ipc = "terminated" /\ cause = "stream") =>
              /\ bq' = bq
              /\ \/ ipc' = "terminated" /\ cause' = "stream"
                 \/ ipc' = "disconnected" /\ restarts' = restarts + 1
        /\ \A k \in 1..Len(bq') : bq'[k].pos \notin missed' ]_vars

\* a message was published, the stream was lost, an event was emitted during
\* the downtime, the Ingester was started again and published a later event
C25_Witness ==
    /\ restarts >= 1
    /\ \E n \in missed : \E j, k \in 1..Len(bq) : bq[j].pos < n /\ n < bq[k].pos

\* C30: a publish that raises StreamLostError leads to one attempt to set up
\* the channel; the Ingester is in reconnecting for no other reason; when
\* that attempt fails, and when a publish raises another error, the
\* Ingester terminates.
C30_OnlyStreamLostRecoverable ==
    [][ /\ recv'.step = "publish_error" =>
              (ipc' = "terminated" /\ cause' = "publish")
        /\ ipc' = "reconnecting" => recv'.step = "stream_lost"
        /\ (ipc # "reconnecting" /\ ipc' = "reconnecting") =>
              (ipc = "listening" /\ Len(failed') = Len(failed) + 1)
        /\ (ipc = "reconnecting" /\ ipc' # ipc) =>
              \/ ipc' = "listening" /\ chan' = chan + 1
              \/ ipc' = "terminated" /\ cause' = "reconnect" /\ chan' = chan ]_vars

\* a StreamLostError was recovered from, and a later publish raised another
\* error, which terminated the Ingester
C30_Witness ==
    /\ Len(failed) >= 1
    /\ chan >= 2
    /\ ipc = "terminated"
    /\ cause = "publish"
    /\ recv.step = "publish_error"

====
